---- MODULE Spec2Model ----
(***************************************************************************)
(* TripleBuffer<T> of src/src/lib.rs: three slots, the packed back word,   *)
(* the two private indices and the two role flags, driven by threads that  *)
(* acquire BufferWriter / BufferReader handles and call their methods.     *)
(* Every atomic load, swap, store and every field access of a slot is one  *)
(* step, so that all interleavings of the calls are explored.              *)
(*                                                                         *)
(* T is modelled as a struct of two fields a, b.  write(g) stores the      *)
(* generation g into both fields in two separate (non-atomic) steps, and   *)
(* the Reader reads the two fields of the slot it was handed in two        *)
(* separate steps, so a torn value would show as a # b.                    *)
(***************************************************************************)
EXTENDS Integers, FiniteSets, Sequences, TLC

\* ---------------------------------------------------------------- bounds
NumThreads ==
    2

MaxGen ==
    2

MaxRaw ==
    1

\* ------------------------------------------------------ program constants
BACK_INDEX_MASK ==
    3

BACK_DIRTY_BIT ==
    4

Threads ==
    1..NumThreads

Slots ==
    0..2

Fields ==
    {"a", "b"}

Nil ==
    0 - 1

NoValue ==
    [a |-> Nil, b |-> Nil]

\* The value written by write(g): both fields carry the generation.
GenValue(g) ==
    [a |-> g, b |-> g]

\* ------------------------------------------------------------- u8 bit ops
RECURSIVE BitAnd(_, _)
BitAnd(x, y) ==
    IF x = 0 \/ y = 0
    THEN 0
    ELSE (x % 2) * (y % 2) + 2 * BitAnd(x \div 2, y \div 2)

RECURSIVE BitOr(_, _)
BitOr(x, y) ==
    IF x = 0 /\ y = 0
    THEN 0
    ELSE (IF x % 2 = 1 \/ y % 2 = 1 THEN 1 ELSE 0) + 2 * BitOr(x \div 2, y \div 2)

\* ------------------------------------------------------------------ state
VARIABLES
    buffers,            \* [Slots -> [a, b]]       TripleBuffer::buffers
    back_info,          \* u8                      TripleBuffer::back_info
    input_idx,          \* u8                      TripleBuffer::input_idx
    output_idx,         \* u8                      TripleBuffer::output_idx
    is_reader_exist,    \* BOOLEAN                 TripleBuffer::is_reader_exist
    is_writer_exist,    \* BOOLEAN                 TripleBuffer::is_writer_exist
    nW,                 \* [Threads -> Nat]  live BufferWriter handles a thread owns
    nR,                 \* [Threads -> Nat]  live BufferReader handles a thread owns
    pc,                 \* [Threads -> position inside the current call]
    call,               \* [Threads -> the public method being executed]
    idx,                \* [Threads -> index loaded from input_idx / output_idx]
    former,             \* [Threads -> former_back_info returned by swap]
    flag,               \* [Threads -> `updated` local / bool result of the call]
    val,                \* [Threads -> argument of write / value read so far]
    hist,               \* history record used only to state the properties
    mark                \* [Threads -> history mark of the read() in progress]

vars ==
    <<buffers, back_info, input_idx, output_idx, is_reader_exist, is_writer_exist,
      nW, nR, pc, call, idx, former, flag, val, hist, mark>>

locals ==
    <<pc, call, idx, former, flag, val>>

shared ==
    <<buffers, back_info, input_idx, output_idx>>

flags ==
    <<is_reader_exist, is_writer_exist>>

handles ==
    <<nW, nR>>

\* The value a direct mutation through input_buffer() stores into a field:
\* one that no write() stores.
RawValues ==
    {MaxGen + 1}

\* mark[t], for a read() in progress: when the read() started, every publish
\* exchange so far had completed its publish(), and no publish exchange has
\* happened since.  For a publish() past its exchange: the value published
\* before it had not been claimed by an update exchange.
NoMark ==
    FALSE

\* hist.quietCheck: a read() has made its dirty check and no publish exchange
\* has happened since the latest such check.
\* hist.quietDone: a read() has completed (handed out its slot) and no publish
\* exchange has happened since the latest such completion.
\* hist.pubSlot: the slot published by the latest publish() that has stored
\* input_idx (Nil before the first).
\* hist.relSlot: the slot the latest update exchange installed in back_info,
\* the one the Reader released (Nil before the first).

\* A slot together with its content: what the Reader holds as its output.
SlotValue(s) ==
    [slot |-> s, val |-> buffers[s]]

\* The dirty bit of a back word.
Dirty(word) ==
    BitAnd(word, BACK_DIRTY_BIT) # 0

\* Mutant of IndexOf: the mask 0b01 in place of 0b11.
IndexOfOneBit(word) ==
    BitAnd(word, 1)

\* Mutant of IndexOf: the word is stored as it is, its dirty bit included.
IndexOfUnmasked(word) ==
    word

\* `former_back_info & BACK_INDEX_MASK`, in publish() and in update().
IndexOf(word) ==
    BitAnd(word, BACK_INDEX_MASK)

\* Mutant of PublishWord: the dirty bit is not set.
PublishWordClean(i) ==
    i

\* The word publish() swaps in: `input_idx | BACK_DIRTY_BIT`.
PublishWord(i) ==
    BitOr(i, BACK_DIRTY_BIT)

\* Mutant of UpdateWord: the Reader sets the dirty bit as publish() does.
UpdateWordDirty(i) ==
    BitOr(i, BACK_DIRTY_BIT)

\* The word update() swaps in: the Reader's output index as it is.
UpdateWord(i) ==
    i

\* Every publish() that has exchanged has also stored input_idx.
PublishesComplete ==
    \A t \in Threads : pc[t] # "p_store"

\* ------------------------------------------------------------------- Init
\* TripleBuffer::new_const(s1, s2, s3) with three equal initial values
\* (generation 0), as in the repository's tests; no handle exists yet.
Init ==
    /\ buffers = [s \in Slots |-> GenValue(0)]
    /\ back_info = 0
    /\ input_idx = 1
    /\ output_idx = 2
    /\ is_reader_exist = FALSE
    /\ is_writer_exist = FALSE
    /\ nW = [t \in Threads |-> 0]
    /\ nR = [t \in Threads |-> 0]
    /\ pc = [t \in Threads |-> "idle"]
    /\ call = [t \in Threads |-> "none"]
    /\ idx = [t \in Threads |-> 0]
    /\ former = [t \in Threads |-> 0]
    /\ flag = [t \in Threads |-> FALSE]
    /\ val = [t \in Threads |-> NoValue]
    /\ hist = [gen |-> 0, raws |-> 0, lastPub |-> NoValue,
               disciplined |-> TRUE, unclaimed |-> FALSE,
               published |-> {}, prev |-> [slot |-> 2, val |-> GenValue(0)],
               quietCheck |-> FALSE, quietDone |-> FALSE,
               pubSlot |-> Nil, relSlot |-> Nil]
    /\ mark = [t \in Threads |-> NoMark]

\* A call returns: the thread's locals go out of scope.  (A local is also
\* reset at its last use inside a call, where the code never reads it again.)
Finish(t) ==
    /\ pc' = [pc EXCEPT ![t] = "idle"]
    /\ call' = [call EXCEPT ![t] = "none"]
    /\ idx' = [idx EXCEPT ![t] = 0]
    /\ former' = [former EXCEPT ![t] = 0]
    /\ flag' = [flag EXCEPT ![t] = FALSE]
    /\ val' = [val EXCEPT ![t] = NoValue]
    /\ mark' = [mark EXCEPT ![t] = NoMark]

Begin(t, c, p) ==
    /\ pc[t] = "idle"
    /\ pc' = [pc EXCEPT ![t] = p]
    /\ call' = [call EXCEPT ![t] = c]

Goto(t, p) ==
    pc' = [pc EXCEPT ![t] = p]

\* ------------------------------------------------- handle acquisition

\* Mutant of CompareExchange: an unconditional swap.
CompareExchangeBlind(cur, current, new) ==
    [ok |-> TRUE, prev |-> cur, next |-> new]

\* Mutant of CompareExchange: a failure reports the expected value, as a
\* spurious failure of the weak form does.
CompareExchangeSpurious(cur, current, new) ==
    IF cur = current
    THEN [ok |-> TRUE, prev |-> cur, next |-> new]
    ELSE [ok |-> FALSE, prev |-> current, next |-> cur]

\* AtomicBool::compare_exchange(current, new, ..): the strong form, which
\* fails only when the flag differs from `current`.
CompareExchange(cur, current, new) ==
    IF cur = current
    THEN [ok |-> TRUE, prev |-> cur, next |-> new]
    ELSE [ok |-> FALSE, prev |-> cur, next |-> cur]

\* get_writer(): one iteration of its loop, the first one entering the call.
\* Ok(_) returns the handle, Err(false) goes round the loop again ("gw"),
\* Err(true) panics.
GetWriter(t) ==
    /\ pc[t] \in {"idle", "gw"}
    /\ LET r == CompareExchange(is_writer_exist, FALSE, TRUE) IN
        /\ is_writer_exist' = r.next
        /\ IF r.ok
           THEN /\ nW' = [nW EXCEPT ![t] = @ + 1]
                /\ Finish(t)
           ELSE IF r.prev = FALSE
           THEN /\ Goto(t, "gw")
                /\ call' = [call EXCEPT ![t] = "get_writer"]
                /\ UNCHANGED <<nW, idx, former, flag, val, mark>>
           ELSE /\ Goto(t, "panicked")
                /\ UNCHANGED <<nW, call, idx, former, flag, val, mark>>
    /\ UNCHANGED <<shared, is_reader_exist, nR, hist>>

\* get_reader(): one iteration of its loop, the first one entering the call.
GetReader(t) ==
    /\ pc[t] \in {"idle", "gr"}
    /\ LET r == CompareExchange(is_reader_exist, FALSE, TRUE) IN
        /\ is_reader_exist' = r.next
        /\ IF r.ok
           THEN /\ nR' = [nR EXCEPT ![t] = @ + 1]
                /\ Finish(t)
           ELSE IF r.prev = FALSE
           THEN /\ Goto(t, "gr")
                /\ call' = [call EXCEPT ![t] = "get_reader"]
                /\ UNCHANGED <<nR, idx, former, flag, val, mark>>
           ELSE /\ Goto(t, "panicked")
                /\ UNCHANGED <<nR, call, idx, former, flag, val, mark>>
    /\ UNCHANGED <<shared, is_writer_exist, nW, hist>>

\* The handle goes out of scope: Drop::drop has been entered.
DropWriterCall(t) ==
    /\ nW[t] > 0
    /\ Begin(t, "drop_writer", "drop_w")
    /\ UNCHANGED <<shared, flags, handles, idx, former, flag, val, hist, mark>>

\* Mutant of DropWriterStore: the drop clears both role flags.
DropWriterStoreBoth(t) ==
    /\ pc[t] = "drop_w"
    /\ is_writer_exist' = FALSE
    /\ is_reader_exist' = FALSE
    /\ nW' = [nW EXCEPT ![t] = @ - 1]
    /\ Finish(t)
    /\ UNCHANGED <<shared, nR, hist>>

\* Drop for BufferWriter: is_writer_exist.store(false).
DropWriterStore(t) ==
    /\ pc[t] = "drop_w"
    /\ is_writer_exist' = FALSE
    /\ nW' = [nW EXCEPT ![t] = @ - 1]
    /\ Finish(t)
    /\ UNCHANGED <<shared, is_reader_exist, nR, hist>>

DropReaderCall(t) ==
    /\ nR[t] > 0
    /\ Begin(t, "drop_reader", "drop_r")
    /\ UNCHANGED <<shared, flags, handles, idx, former, flag, val, hist, mark>>

\* Mutant of DropReaderStore: the handle goes away and the flag stays set.
DropReaderStoreLeak(t) ==
    /\ pc[t] = "drop_r"
    /\ nR' = [nR EXCEPT ![t] = @ - 1]
    /\ Finish(t)
    /\ UNCHANGED <<shared, flags, nW, hist>>

\* Mutant of DropReaderStore: the drop also clears the dirty bit, as if the
\* value the dropped handle never claimed went with it.
DropReaderStoreDiscard(t) ==
    /\ pc[t] = "drop_r"
    /\ is_reader_exist' = FALSE
    /\ back_info' = IndexOf(back_info)
    /\ nR' = [nR EXCEPT ![t] = @ - 1]
    /\ Finish(t)
    /\ UNCHANGED <<buffers, input_idx, output_idx, is_writer_exist, nW, hist>>

\* Drop for BufferReader: is_reader_exist.store(false).
DropReaderStore(t) ==
    /\ pc[t] = "drop_r"
    /\ is_reader_exist' = FALSE
    /\ nR' = [nR EXCEPT ![t] = @ - 1]
    /\ Finish(t)
    /\ UNCHANGED <<shared, is_writer_exist, nW, hist>>

\* panic! unwinds the thread: the handles it owns are dropped.
UnwindWriter(t) ==
    /\ pc[t] = "panicked"
    /\ nW[t] > 0
    /\ is_writer_exist' = FALSE
    /\ nW' = [nW EXCEPT ![t] = @ - 1]
    /\ UNCHANGED <<shared, is_reader_exist, nR, locals, hist, mark>>

UnwindReader(t) ==
    /\ pc[t] = "panicked"
    /\ nR[t] > 0
    /\ is_reader_exist' = FALSE
    /\ nR' = [nR EXCEPT ![t] = @ - 1]
    /\ UNCHANGED <<shared, is_writer_exist, nW, locals, hist, mark>>

\* ------------------------------------------------------- BufferWriter
\* write(value): the argument is the next generation.
WriteCall(t) ==
    /\ nW[t] > 0
    /\ hist.gen < MaxGen
    /\ Begin(t, "write", "i_load")
    /\ val' = [val EXCEPT ![t] = GenValue(hist.gen + 1)]
    /\ hist' = [hist EXCEPT !.gen = @ + 1]
    /\ UNCHANGED <<shared, flags, handles, idx, former, flag, mark>>

\* A caller takes input_buffer() to mutate one field in place.
MutateCall(t) ==
    /\ nW[t] > 0
    /\ hist.raws < MaxRaw
    /\ Begin(t, "input_buffer", "i_load")
    /\ hist' = [hist EXCEPT !.raws = @ + 1]
    /\ UNCHANGED <<shared, flags, handles, idx, former, flag, val, mark>>

\* Mutant of InputBufferLoad: the slot handed out is the back slot.
InputBufferLoadBack(t) ==
    /\ pc[t] = "i_load"
    /\ idx' = [idx EXCEPT ![t] = IndexOf(back_info)]
    /\ Goto(t, IF call[t] = "write" THEN "w_a" ELSE "m_set")
    /\ UNCHANGED <<shared, flags, handles, call, former, flag, val, hist, mark>>

\* input_buffer(): input_idx.load(Acquire) names the slot handed out.
InputBufferLoad(t) ==
    /\ pc[t] = "i_load"
    /\ idx' = [idx EXCEPT ![t] = input_idx]
    /\ Goto(t, IF call[t] = "write" THEN "w_a" ELSE "m_set")
    /\ UNCHANGED <<shared, flags, handles, call, former, flag, val, hist, mark>>

\* `*self.input_buffer() = value`: a plain (non-atomic) store, field by field.
WriteFieldA(t) ==
    /\ pc[t] = "w_a"
    /\ buffers' = [buffers EXCEPT ![idx[t]].a = val[t].a]
    /\ Goto(t, "w_b")
    /\ UNCHANGED <<back_info, input_idx, output_idx, flags, handles,
                   call, idx, former, flag, val, hist, mark>>

\* The second field; write() goes on to publish().
WriteFieldB(t) ==
    /\ pc[t] = "w_b"
    /\ buffers' = [buffers EXCEPT ![idx[t]].b = val[t].b]
    /\ Goto(t, "p_load")
    /\ idx' = [idx EXCEPT ![t] = 0]
    /\ UNCHANGED <<back_info, input_idx, output_idx, flags, handles,
                   call, former, flag, val, hist, mark>>

\* The caller of input_buffer() stores one field through the reference.
MutateField(t) ==
    /\ pc[t] = "m_set"
    /\ \E f \in Fields, v \in RawValues :
          buffers' = [buffers EXCEPT ![idx[t]][f] = v]
    /\ Finish(t)
    /\ UNCHANGED <<back_info, input_idx, output_idx, flags, handles, hist>>

\* publish() called directly, without a write().
PublishCall(t) ==
    /\ nW[t] > 0
    /\ hist.raws < MaxRaw
    /\ Begin(t, "publish", "p_load")
    /\ hist' = [hist EXCEPT !.raws = @ + 1]
    /\ UNCHANGED <<shared, flags, handles, idx, former, flag, val, mark>>

\* publish(): the argument of swap, input_idx.load(Acquire).
PublishLoad(t) ==
    /\ pc[t] = "p_load"
    /\ idx' = [idx EXCEPT ![t] = input_idx]
    /\ Goto(t, "p_swap")
    /\ UNCHANGED <<shared, flags, handles, call, former, flag, val, hist, mark>>

\* Mutant of PublishSwap: the Writer waits until the Reader has claimed the
\* value published before.
PublishSwapWaiting(t) ==
    /\ pc[t] = "p_swap"
    /\ ~Dirty(back_info)
    /\ former' = [former EXCEPT ![t] = back_info]
    /\ back_info' = PublishWord(idx[t])
    /\ Goto(t, "p_store")
    /\ hist' = [hist EXCEPT !.lastPub = IF call[t] = "write" THEN val[t]
                                        ELSE buffers[idx[t]],
                            !.quietCheck = FALSE,
                            !.quietDone = FALSE,
                            !.disciplined = @ /\ call[t] = "write",
                            !.unclaimed = TRUE,
                            !.published = @ \cup {buffers[idx[t]]}]
    /\ idx' = [idx EXCEPT ![t] = 0]
    /\ val' = [val EXCEPT ![t] = NoValue]
    /\ mark' = [u \in Threads |-> u = t /\ hist.unclaimed]
    /\ UNCHANGED <<buffers, input_idx, output_idx, flags, handles, call, flag>>

\* publish(): back_info.swap(input_idx | BACK_DIRTY_BIT, AcqRel).
PublishSwap(t) ==
    /\ pc[t] = "p_swap"
    /\ former' = [former EXCEPT ![t] = back_info]
    /\ back_info' = PublishWord(idx[t])
    /\ Goto(t, "p_store")
    /\ hist' = [hist EXCEPT !.lastPub = IF call[t] = "write" THEN val[t]
                                        ELSE buffers[idx[t]],
                            !.quietCheck = FALSE,
                            !.quietDone = FALSE,
                            !.disciplined = @ /\ call[t] = "write",
                            !.unclaimed = TRUE,
                            !.published = @ \cup {buffers[idx[t]]}]
    /\ idx' = [idx EXCEPT ![t] = 0]
    /\ val' = [val EXCEPT ![t] = NoValue]
    /\ mark' = [u \in Threads |-> u = t /\ hist.unclaimed]
    /\ UNCHANGED <<buffers, input_idx, output_idx, flags, handles, call, flag>>

\* Mutant of PublishResult: the test of the dirty bit negated.
PublishResultNegated(word) ==
    BitAnd(word, BACK_DIRTY_BIT) = 0

\* The value publish() returns, from the word its swap replaced.
PublishResult(word) ==
    BitAnd(word, BACK_DIRTY_BIT) # 0

\* Mutant of PublishStore: the Writer keeps the slot it has just published
\* as its input slot.
PublishStoreKeep(t) ==
    /\ pc[t] = "p_store"
    /\ input_idx' = input_idx
    /\ IF call[t] = "write"
       THEN Finish(t)
       ELSE /\ flag' = [flag EXCEPT ![t] = PublishResult(former[t])]
            /\ Goto(t, "done")
            /\ UNCHANGED <<call, idx, former, val, mark>>
    /\ hist' = [hist EXCEPT !.pubSlot = input_idx]
    /\ UNCHANGED <<buffers, back_info, output_idx, flags, handles>>

\* publish(): input_idx.store(former_back_info & BACK_INDEX_MASK) and return.
\* write() discards the result and returns.
PublishStore(t) ==
    /\ pc[t] = "p_store"
    /\ input_idx' = IndexOf(former[t])
    /\ IF call[t] = "write"
       THEN Finish(t)
       ELSE /\ flag' = [flag EXCEPT ![t] = PublishResult(former[t])]
            /\ Goto(t, "done")
            /\ UNCHANGED <<call, idx, former, val, mark>>
    /\ hist' = [hist EXCEPT !.pubSlot = input_idx]
    /\ UNCHANGED <<buffers, back_info, output_idx, flags, handles>>

\* consumed(): back_info.load(Acquire) & BACK_DIRTY_BIT == 0.
ConsumedOf(word) ==
    BitAnd(word, BACK_DIRTY_BIT) = 0

\* Mutant of Consumed: the inspection clears the dirty bit it has read.
ConsumedClearing(t) ==
    /\ nW[t] > 0
    /\ Begin(t, "consumed", "done")
    /\ flag' = [flag EXCEPT ![t] = ConsumedOf(back_info)]
    /\ back_info' = IndexOf(back_info)
    /\ UNCHANGED <<buffers, input_idx, output_idx, flags, handles,
                   idx, former, val, hist, mark>>

Consumed(t) ==
    /\ nW[t] > 0
    /\ Begin(t, "consumed", "done")
    /\ flag' = [flag EXCEPT ![t] = ConsumedOf(back_info)]
    /\ UNCHANGED <<shared, flags, handles, idx, former, val, hist, mark>>

\* ------------------------------------------------------- BufferReader
\* Mutant of UpdatedOf: the index bits are tested in place of the dirty bit.
UpdatedOfIndexBits(word) ==
    BitAnd(word, BACK_INDEX_MASK) # 0

\* Mutant of UpdatedOf: update() exchanges whatever the dirty bit says.
UpdatedOfAlways(word) ==
    TRUE

\* updated(): back_info.load(Acquire) & BACK_DIRTY_BIT != 0.
UpdatedOf(word) ==
    BitAnd(word, BACK_DIRTY_BIT) # 0

Updated(t) ==
    /\ nR[t] > 0
    /\ Begin(t, "updated", "done")
    /\ flag' = [flag EXCEPT ![t] = UpdatedOf(back_info)]
    /\ UNCHANGED <<shared, flags, handles, idx, former, val, hist, mark>>

UpdateCall(t) ==
    /\ nR[t] > 0
    /\ Begin(t, "update", "u_check")
    /\ UNCHANGED <<shared, flags, handles, idx, former, flag, val, hist, mark>>

\* read() starts with update().
ReadCall(t) ==
    /\ nR[t] > 0
    /\ Begin(t, "read", "u_check")
    /\ mark' = [mark EXCEPT ![t] = PublishesComplete]
    /\ UNCHANGED <<shared, flags, handles, idx, former, flag, val, hist>>

\* Where update() returns to: its caller, or the rest of read().
AfterUpdate(t) ==
    IF call[t] = "read" THEN "o_load" ELSE "done"

\* update(): `let updated = self.updated()`.
UpdateCheck(t) ==
    /\ pc[t] = "u_check"
    /\ flag' = [flag EXCEPT ![t] = UpdatedOf(back_info)]
    /\ Goto(t, IF UpdatedOf(back_info) THEN "u_load" ELSE AfterUpdate(t))
    /\ hist' = IF call[t] = "read" THEN [hist EXCEPT !.quietCheck = TRUE] ELSE hist
    /\ UNCHANGED <<shared, flags, handles, call, idx, former, val, mark>>

\* update(): the argument of swap, output_idx.load(Acquire).
UpdateLoad(t) ==
    /\ pc[t] = "u_load"
    /\ idx' = [idx EXCEPT ![t] = output_idx]
    /\ Goto(t, "u_swap")
    /\ UNCHANGED <<shared, flags, handles, call, former, flag, val, hist, mark>>

\* update(): back_info.swap(output_idx, AcqRel).
UpdateSwap(t) ==
    /\ pc[t] = "u_swap"
    /\ former' = [former EXCEPT ![t] = back_info]
    /\ back_info' = UpdateWord(idx[t])
    /\ Goto(t, "u_store")
    /\ hist' = [hist EXCEPT !.unclaimed = FALSE, !.relSlot = idx[t]]
    /\ UNCHANGED <<buffers, input_idx, output_idx, flags, handles,
                   call, idx, flag, val, mark>>

\* update(): output_idx.store(former_back_info & BACK_INDEX_MASK); returns
\* `updated`.  hist.prev follows the output the Reader holds.
UpdateStore(t) ==
    /\ pc[t] = "u_store"
    /\ output_idx' = IndexOf(former[t])
    /\ Goto(t, AfterUpdate(t))
    /\ idx' = [idx EXCEPT ![t] = 0]
    /\ former' = [former EXCEPT ![t] = 0]
    /\ hist' = IF call[t] = "update"
               THEN [hist EXCEPT !.prev = SlotValue(IndexOf(former[t]))]
               ELSE hist
    /\ UNCHANGED <<buffers, back_info, input_idx, flags, handles,
                   call, flag, val, mark>>

\* output_buffer(): output_idx.load(Acquire) names the slot handed out.
OutputBufferLoad(t) ==
    /\ pc[t] = "o_load"
    /\ idx' = [idx EXCEPT ![t] = output_idx]
    /\ Goto(t, "d_a")
    /\ hist' = IF call[t] = "read" THEN [hist EXCEPT !.quietDone = TRUE] ELSE hist
    /\ UNCHANGED <<shared, flags, handles, call, former, flag, val, mark>>

\* The caller reads the value through the reference, field by field.
DerefFieldA(t) ==
    /\ pc[t] = "d_a"
    /\ val' = [val EXCEPT ![t].a = buffers[idx[t]].a]
    /\ Goto(t, "d_b")
    /\ UNCHANGED <<shared, flags, handles, call, idx, former, flag, hist, mark>>

DerefFieldB(t) ==
    /\ pc[t] = "d_b"
    /\ val' = [val EXCEPT ![t].b = buffers[idx[t]].b]
    /\ Goto(t, "done")
    /\ UNCHANGED <<shared, flags, handles, call, idx, former, flag, hist, mark>>

\* The caller is done with the result of the call.
Return(t) ==
    /\ pc[t] = "done"
    /\ Finish(t)
    /\ hist' = IF call[t] = "read"
               THEN [hist EXCEPT !.prev = [slot |-> idx[t], val |-> val[t]]]
               ELSE hist
    /\ UNCHANGED <<shared, flags, handles>>

\* ------------------------------------------------------------------- Next
Next ==
    \E t \in Threads :
        \/ GetWriter(t)
        \/ GetReader(t)
        \/ DropWriterCall(t)
        \/ DropWriterStore(t)
        \/ DropReaderCall(t)
        \/ DropReaderStore(t)
        \/ UnwindWriter(t)
        \/ UnwindReader(t)
        \/ WriteCall(t)
        \/ MutateCall(t)
        \/ InputBufferLoad(t)
        \/ WriteFieldA(t)
        \/ WriteFieldB(t)
        \/ MutateField(t)
        \/ PublishCall(t)
        \/ PublishLoad(t)
        \/ PublishSwap(t)
        \/ PublishStore(t)
        \/ Consumed(t)
        \/ Updated(t)
        \/ UpdateCall(t)
        \/ ReadCall(t)
        \/ UpdateCheck(t)
        \/ UpdateLoad(t)
        \/ UpdateSwap(t)
        \/ UpdateStore(t)
        \/ OutputBufferLoad(t)
        \/ DerefFieldA(t)
        \/ DerefFieldB(t)
        \/ Return(t)

Spec ==
    Init /\ [][Next]_vars

\* One step of thread t inside write(), publish(), update() or read(): the
\* body of the method, not its being called nor the use of what it returns.
OpStep(t) ==
    /\ call[t] \in {"write", "publish", "update", "read"}
    /\ \/ InputBufferLoad(t)
       \/ WriteFieldA(t)
       \/ WriteFieldB(t)
       \/ PublishLoad(t)
       \/ PublishSwap(t)
       \/ PublishStore(t)
       \/ UpdateCheck(t)
       \/ UpdateLoad(t)
       \/ UpdateSwap(t)
       \/ UpdateStore(t)
       \/ OutputBufferLoad(t)

\* The thread whose calls are followed to their end.
Caller ==
    CHOOSE t \in Threads : TRUE

\* The program with a scheduler that keeps running the Caller while it is
\* inside a method; every other thread may stop anywhere and for ever.
WaitFreeSpec ==
    Spec /\ WF_vars(OpStep(Caller))

\* =================================================================== claims
InPublish(t) ==
    pc[t] \in {"p_load", "p_swap", "p_store"}

InUpdate(t) ==
    pc[t] \in {"u_check", "u_load", "u_swap", "u_store"}

\* The thread is storing into the slot it took as input slot.
Mutating(t) ==
    pc[t] \in {"w_a", "w_b", "m_set"}

\* The thread holds the reference read() gave it.
Reading(t) ==
    pc[t] \in {"d_a", "d_b", "done"} /\ call[t] = "read"

ReadDone(t) ==
    pc[t] = "done" /\ call[t] = "read"

RECURSIVE SumTo(_, _)
SumTo(f, n) ==
    IF n = 0 THEN 0 ELSE f[n] + SumTo(f, n - 1)

LiveWriters ==
    SumTo(nW, NumThreads)

LiveReaders ==
    SumTo(nR, NumThreads)

\* C1: slot exclusivity and no tearing.  While no publish() and no update()
\* is in progress input_idx and output_idx name different slots; a thread
\* storing into its input slot and a thread holding the reference of read()
\* never have the same slot; and the value a read() yields, read field by
\* field, is an initial slot value or the whole content of the input slot at
\* one publish exchange.
C1_SlotExclusivity ==
    /\ ((\A t \in Threads : ~InPublish(t) /\ ~InUpdate(t))
            => input_idx # output_idx)
    /\ \A t, u \in Threads : (Mutating(t) /\ Reading(u)) => idx[t] # idx[u]
    /\ \A t \in Threads :
          ReadDone(t) => val[t] \in ({GenValue(0)} \cup hist.published)

\* A read() has yielded a published generation while a write() is half way
\* through storing the next one into its own slot.
C1_Witness ==
    \E t, u \in Threads :
        /\ pc[t] = "w_b"
        /\ ReadDone(u)
        /\ val[u].a >= 1
        /\ buffers[idx[t]].a # buffers[idx[t]].b

\* C2: a read() that starts after the latest publish has completed, with no
\* publish exchange until it has ended, yields exactly the value of that
\* publish (the argument v_N of the N-th write).
C2_FinalReadIsLastWrite ==
    \A t \in Threads :
        (ReadDone(t) /\ mark[t]) =>
            (hist.lastPub # NoValue => val[t] = hist.lastPub)

\* Two writes have gone by and the read() that followed yields the second.
C2_Witness ==
    \E t \in Threads :
        /\ ReadDone(t)
        /\ mark[t]
        /\ hist.disciplined
        /\ hist.gen >= 2
        /\ val[t] = GenValue(hist.gen)

\* C3: the exchange of update() removes a dirty word from back_info, and the
\* slot it names holds the value of the latest publish exchange.
C3_FreshHandoff ==
    [][\A t \in Threads :
          (pc[t] = "u_swap" /\ pc'[t] = "u_store") =>
              /\ Dirty(former'[t])
              /\ hist.lastPub # NoValue
              /\ buffers[IndexOf(former'[t])] = hist.lastPub]_vars

\* A publish exchange has happened between the dirty check of a read() and
\* its exchange, none after it, and the read() has acquired that value.
C3_Witness ==
    \E t \in Threads :
        /\ pc[t] = "u_store"
        /\ call[t] = "read"
        /\ ~hist.quietCheck
        /\ back_info = UpdateWord(idx[t])
        /\ hist.gen >= 2
        /\ buffers[IndexOf(former[t])] = GenValue(hist.gen)

\* C4: when every publish is the one of a write() (generations 1, 2, ...),
\* the generation a read() yields is never below the generation of the output
\* the Reader held before.
C4_MonotonicObservation ==
    \A t \in Threads :
        (ReadDone(t) /\ hist.disciplined) =>
            /\ val[t].a = val[t].b
            /\ val[t].a >= hist.prev.val.a

\* The Reader has seen generation 1 and now sees a later one.
C4_Witness ==
    \E t \in Threads :
        /\ ReadDone(t)
        /\ hist.disciplined
        /\ hist.prev.val.a >= 1
        /\ val[t].a > hist.prev.val.a

\* C5: at most one BufferWriter and at most one BufferReader are live.
C5_HandleExclusivity ==
    /\ LiveWriters <= 1
    /\ LiveReaders <= 1

\* Both handles are live and a further acquisition has panicked.
C5_Witness ==
    /\ LiveWriters = 1
    /\ LiveReaders = 1
    /\ \E t \in Threads : pc[t] = "panicked"

\* C6: a get_reader() made while a BufferReader is live panics and hands out
\* nothing; made while none is live it returns a handle.  The same for
\* get_writer() and BufferWriter.
C6_ExclusivityFatal ==
    [][\A t \in Threads :
          /\ GetReader(t) =>
                IF LiveReaders >= 1
                THEN pc'[t] = "panicked" /\ nR' = nR
                ELSE pc'[t] = "idle" /\ nR'[t] = nR[t] + 1
          /\ GetWriter(t) =>
                IF LiveWriters >= 1
                THEN pc'[t] = "panicked" /\ nW' = nW
                ELSE pc'[t] = "idle" /\ nW'[t] = nW[t] + 1]_vars

\* A thread has panicked in an acquisition, the handle that was in its way
\* has been dropped since, and another acquisition of a reader has succeeded.
C6_Witness ==
    \E t, u \in Threads :
        /\ t # u
        /\ pc[t] = "panicked"
        /\ nR[t] = 0
        /\ nW[t] = 0
        /\ nR[u] = 1
        /\ ~is_writer_exist

\* C7 as stated: a get_writer() / get_reader() whose compare-and-swap finds
\* the flag true while the only live handle of the role is inside its drop,
\* before the store of false, does not panic.
C7_TransientRaceRetried ==
    [][\A t \in Threads :
          /\ (GetWriter(t) /\ \E u \in Threads : pc[u] = "drop_w")
                => pc'[t] # "panicked"
          /\ (GetReader(t) /\ \E u \in Threads : pc[u] = "drop_r")
                => pc'[t] # "panicked"]_vars

\* C7 as amended: such a call panics like every call that finds the flag
\* true, no call ever goes round the loop again, and a call that finds the
\* flag false (the store of the drop has been executed) returns a handle.
C7_TransientRaceFatal ==
    [][\A t \in Threads :
          /\ GetWriter(t) =>
                /\ pc'[t] # "gw"
                /\ (\E u \in Threads : pc[u] = "drop_w")
                      => (pc'[t] = "panicked" /\ nW' = nW)
                /\ ~is_writer_exist => (pc'[t] = "idle" /\ nW'[t] = nW[t] + 1)
          /\ GetReader(t) =>
                /\ pc'[t] # "gr"
                /\ (\E u \in Threads : pc[u] = "drop_r")
                      => (pc'[t] = "panicked" /\ nR' = nR)
                /\ ~is_reader_exist => (pc'[t] = "idle" /\ nR'[t] = nR[t] + 1)]_vars

\* A BufferWriter is inside its drop, its store still to come, and another
\* thread's acquisition has panicked.
C7_Witness ==
    \E t, u \in Threads :
        /\ pc[u] = "drop_w"
        /\ is_writer_exist
        /\ pc[t] = "panicked"
        /\ LiveReaders = 0
        /\ ~is_reader_exist

\* C8 as stated: publish() returns true exactly when the word it replaced
\* had its dirty bit clear (the value published before had been claimed).
C8_PublishReturnsConsumed ==
    \A t \in Threads :
        (pc[t] = "done" /\ call[t] = "publish") =>
            /\ flag[t] <=> ~Dirty(former[t])
            /\ flag[t] <=> ~mark[t]

\* C8 as amended: publish() returns true exactly when the word it replaced
\* had its dirty bit set (the value published before had not been claimed
\* and is overwritten), and false exactly when the bit was clear.
C8_PublishReturnsOverwritten ==
    \A t \in Threads :
        (pc[t] = "done" /\ call[t] = "publish") =>
            /\ flag[t] <=> Dirty(former[t])
            /\ flag[t] <=> mark[t]

\* A publish() has returned true after a write() that no update() claimed.
C8_Witness ==
    \E t \in Threads :
        /\ pc[t] = "done"
        /\ call[t] = "publish"
        /\ flag[t]
        /\ hist.gen >= 1

\* C9: the dirty bit of back_info is set exactly when a publish exchange has
\* happened since the last update exchange (or since construction);
\* updated() returns that, and consumed() its negation.
C9_DirtyBit ==
    /\ [](Dirty(back_info) <=> hist.unclaimed)
    /\ [][\A t \in Threads :
             /\ Updated(t) => (flag'[t] <=> hist.unclaimed)
             /\ Consumed(t) => (flag'[t] <=> ~hist.unclaimed)]_vars

\* updated() has returned true after two writes that no update() claimed.
C9_Witness ==
    \E t \in Threads :
        /\ pc[t] = "done"
        /\ call[t] = "updated"
        /\ flag[t]
        /\ hist.gen >= 2
        /\ hist.unclaimed
        /\ PublishesComplete
        /\ output_idx = 2

\* C10 as stated: when no publish exchange happens between the completion of
\* one read() and the completion of the next, the second read() has made no
\* exchange and hands out the slot and the value of the first.
C10_RereadAfterCompletion ==
    [][\A t \in Threads :
          (pc[t] = "o_load" /\ pc'[t] = "d_a" /\ call[t] = "read"
             /\ hist.quietDone) =>
              /\ ~flag[t]
              /\ output_idx = hist.prev.slot
              /\ buffers[output_idx] = hist.prev.val]_vars

\* C10 as amended: when no publish exchange happens between the dirty check
\* of one read() and the dirty check of the next, the second read() finds
\* the dirty bit clear; a read() that finds it clear makes no exchange,
\* changes none of back_info, input_idx, output_idx and the slots, and hands
\* out the slot and the value the Reader held before.
C10_IdempotentReread ==
    [][\A t \in Threads :
          /\ (pc[t] = "u_check" /\ pc'[t] # "u_check" /\ call[t] = "read"
                /\ hist.quietCheck) =>
                  (~UpdatedOf(back_info) /\ ~flag'[t])
          /\ (pc[t] = "u_check" /\ pc'[t] # "u_check" /\ ~flag'[t]) =>
                  (pc'[t] \notin {"u_load", "u_swap", "u_store"}
                     /\ UNCHANGED shared)
          /\ (pc[t] = "o_load" /\ pc'[t] = "d_a" /\ call[t] = "read"
                /\ ~flag[t]) =>
                  /\ UNCHANGED shared
                  /\ output_idx = hist.prev.slot
                  /\ buffers[output_idx] = hist.prev.val
          /\ (ReadDone(t) /\ ~flag[t] /\ pc'[t] = "idle") =>
                  (idx[t] = hist.prev.slot /\ val[t] = hist.prev.val)]_vars

\* A second read() with no publish since the dirty check of the first has
\* ended without an exchange, on a published generation.
C10_Witness ==
    \E t \in Threads :
        /\ ReadDone(t)
        /\ ~flag[t]
        /\ hist.quietCheck
        /\ hist.quietDone
        /\ val[t].a >= 1
        /\ val[t] = hist.prev.val
        /\ idx[t] = hist.prev.slot

\* The thread is inside the body of write(), publish(), update() or read().
InOp(t) ==
    /\ call[t] \in {"write", "publish", "update", "read"}
    /\ pc[t] \in {"i_load", "w_a", "w_b", "p_load", "p_swap", "p_store",
                  "u_check", "u_load", "u_swap", "u_store", "o_load"}

\* The number of steps a method has at most still to take from a position.
StepsLeft(p) ==
    CASE p = "i_load" -> 6
      [] p = "w_a" -> 5
      [] p = "w_b" -> 4
      [] p = "p_load" -> 3
      [] p = "p_swap" -> 2
      [] p = "p_store" -> 1
      [] p = "u_check" -> 5
      [] p = "u_load" -> 4
      [] p = "u_swap" -> 3
      [] p = "u_store" -> 2
      [] p = "o_load" -> 1
      [] OTHER -> 0

\* C11: wait-freedom of the handoff.  A thread inside write(), publish(),
\* update() or read() can always take its next step, whatever the positions
\* of the other threads; each of its steps brings it strictly nearer the end
\* of the method (at most six steps, no way back); and when the calling
\* thread alone keeps being scheduled, the method it has started comes to
\* its end.
C11_WaitFree ==
    /\ [](\A t \in Threads : InOp(t) => ENABLED OpStep(t))
    /\ [][\A t \in Threads :
             (InOp(t) /\ pc'[t] # pc[t]) =>
                 StepsLeft(pc'[t]) < StepsLeft(pc[t])]_vars
    /\ (InOp(Caller) ~> ~InOp(Caller))

\* The Caller's publish() has exchanged, stored and returned while another
\* thread's update() stays between its exchange and its store.
C11_Witness ==
    \E u \in Threads :
        /\ u # Caller
        /\ pc[u] = "u_store"
        /\ pc[Caller] = "done"
        /\ call[Caller] = "publish"
        /\ ~flag[Caller]
        /\ Dirty(back_info)

\* The slot the Reader holds as its output: the one output_idx names, and
\* while an update() is between its exchange and its store to output_idx the
\* one it has exchanged for (output_idx then still names the slot it gave
\* away).
OutputSlot ==
    IF \E u \in Threads : pc[u] = "u_store"
    THEN IndexOf(former[CHOOSE u \in Threads : pc[u] = "u_store"])
    ELSE output_idx

\* The slots whose content the Reader can get to see without a further
\* publish(): the back slot, the output slot, and the slot a caller of
\* read() is reading.
ReaderSlots ==
    {IndexOf(back_info), OutputSlot}
        \cup {idx[u] : u \in {v \in Threads : pc[v] \in {"d_a", "d_b"}}}

\* A step of a mutation through input_buffer() that no publish() follows.
MutationStep(t) ==
    /\ call[t] = "input_buffer" \/ call'[t] = "input_buffer"
    /\ pc'[t] # pc[t]

\* C12: unpublished mutations are invisible.  Every step of a mutation
\* through input_buffer() leaves back_info, input_idx and output_idx as they
\* are and changes the content of no slot but the input slot, which is none
\* of the slots the Reader can get to see; what updated(), update() and
\* read() return (they depend on back_info, output_idx and those slots only)
\* is therefore what it would be without the mutation.
C12_UnpublishedInvisible ==
    [][\A t \in Threads :
          MutationStep(t) =>
              /\ UNCHANGED <<back_info, input_idx, output_idx>>
              /\ \A s \in Slots \ {input_idx} : buffers'[s] = buffers[s]
              /\ input_idx \notin ReaderSlots
              /\ \A u \in Threads \ {t} : val'[u] = val[u] /\ flag'[u] = flag[u]]_vars

\* The input slot carries an unpublished mutation, and a read() made on a
\* published generation has yielded that generation whole.
C12_Witness ==
    \E t \in Threads :
        /\ ReadDone(t)
        /\ val[t].a >= 1
        /\ val[t] = hist.lastPub
        /\ buffers[input_idx].a # buffers[input_idx].b
        /\ \E f \in Fields : buffers[input_idx][f] \in RawValues
        /\ \A u \in Threads : ~InPublish(u) /\ ~Mutating(u)

\* C13: index permutation invariant.  From back index 0, input_idx 1,
\* output_idx 2, in every state in which no publish() is between its exchange
\* and its store to input_idx and no update() is between its exchange and its
\* store to output_idx, the index bits of back_info, input_idx and output_idx
\* are pairwise distinct and each is one of 0, 1, 2.
C13_IndexPermutation ==
    (\A t \in Threads : pc[t] \notin {"p_store", "u_store"}) =>
        /\ {input_idx, IndexOf(back_info), output_idx} \subseteq Slots
        /\ input_idx # IndexOf(back_info)
        /\ input_idx # output_idx
        /\ IndexOf(back_info) # output_idx

\* A publish and an update have moved every index off its initial value,
\* a further publish() is about to exchange and a further update() has begun.
C13_Witness ==
    /\ input_idx # 1
    /\ IndexOf(back_info) # 0
    /\ output_idx # 2
    /\ \E t, u \in Threads : pc[t] = "p_swap" /\ pc[u] = "u_check"

\* C14: the role flags are independent.  get_writer() returns a handle
\* whenever no BufferWriter is live, a BufferReader being live or not, and
\* get_reader() likewise; no acquisition and no drop (at scope end or in an
\* unwinding) of one role changes the flag or the handles of the other role.
C14_RoleFlagsIndependent ==
    [][\A t \in Threads :
          /\ GetWriter(t) =>
                /\ LiveWriters = 0 => (pc'[t] = "idle" /\ nW'[t] = nW[t] + 1)
                /\ UNCHANGED <<is_reader_exist, nR>>
          /\ GetReader(t) =>
                /\ LiveReaders = 0 => (pc'[t] = "idle" /\ nR'[t] = nR[t] + 1)
                /\ UNCHANGED <<is_writer_exist, nW>>
          /\ (DropWriterCall(t) \/ DropWriterStore(t) \/ UnwindWriter(t))
                => UNCHANGED <<is_reader_exist, nR>>
          /\ (DropReaderCall(t) \/ DropReaderStore(t) \/ UnwindReader(t))
                => UNCHANGED <<is_writer_exist, nW>>]_vars

\* A BufferWriter and a BufferReader of two threads are live together, the
\* one acquired while the other was live, and the BufferWriter is in its
\* drop.
C14_Witness ==
    \E t, u \in Threads :
        /\ t # u
        /\ nW[t] = 1
        /\ nR[u] = 1
        /\ is_writer_exist
        /\ is_reader_exist
        /\ pc[t] = "drop_w"
        /\ pc[u] = "idle"

\* A step of the release of a handle: its drop at the end of its scope, or
\* its drop in the unwinding of a panic.
ReleaseStep(t) ==
    \/ DropWriterCall(t)
    \/ DropWriterStore(t)
    \/ UnwindWriter(t)
    \/ DropReaderCall(t)
    \/ DropReaderStore(t)
    \/ UnwindReader(t)

\* C15: release changes only the role flag.  No step of a drop changes
\* back_info (the dirty bit included), input_idx, output_idx or a slot, and
\* no acquisition does; so while no BufferReader exists a published value
\* that no update() has claimed stays in the back slot with the dirty bit
\* set, for the read() of the next BufferReader, and while no BufferWriter
\* exists input_idx stays the slot the last one left, which is neither the
\* back slot nor the slot the Reader holds.
C15_ReleaseOnlyFlag ==
    /\ [][\A t \in Threads :
             (ReleaseStep(t) \/ GetWriter(t) \/ GetReader(t))
                 => UNCHANGED shared]_vars
    /\ []((LiveReaders = 0 /\ hist.unclaimed) =>
             /\ Dirty(back_info)
             /\ buffers[IndexOf(back_info)] = hist.lastPub)
    /\ [](LiveWriters = 0 =>
             /\ input_idx # IndexOf(back_info)
             /\ input_idx # OutputSlot)

\* Generation 2 has been published and its BufferWriter released, no
\* BufferWriter exists, and a read() has exchanged for generation 2 in a slot
\* other than the one in which the Reader held generation 1.
C15_Witness ==
    \E t \in Threads :
        /\ ReadDone(t)
        /\ flag[t]
        /\ val[t] = GenValue(2)
        /\ val[t] = hist.lastPub
        /\ hist.prev.val = GenValue(1)
        /\ hist.prev.slot # idx[t]
        /\ ~is_writer_exist
        /\ LiveWriters = 0

\* C16: the private indices have a single writer.  input_idx changes only in
\* the store of a publish() (alone or inside write()) made by the thread
\* that owns the BufferWriter, output_idx only in the store of an update()
\* (alone or inside read()) made by the thread that owns the BufferReader;
\* no step of publish() changes output_idx and no step of update() changes
\* input_idx; updated(), consumed(), input_buffer() and output_buffer()
\* change none of back_info, input_idx, output_idx.
C16_PrivateIndices ==
    [][/\ input_idx' # input_idx =>
              \E t \in Threads :
                  /\ PublishStore(t)
                  /\ nW[t] > 0
                  /\ call[t] \in {"publish", "write"}
       /\ output_idx' # output_idx =>
              \E t \in Threads :
                  /\ UpdateStore(t)
                  /\ nR[t] > 0
                  /\ call[t] \in {"update", "read"}
       /\ \A t \in Threads :
              /\ (PublishLoad(t) \/ PublishSwap(t) \/ PublishStore(t))
                    => output_idx' = output_idx
              /\ (UpdateCheck(t) \/ UpdateLoad(t) \/ UpdateSwap(t)
                    \/ UpdateStore(t)) => input_idx' = input_idx
              /\ (Updated(t) \/ Consumed(t) \/ InputBufferLoad(t)
                    \/ MutateField(t) \/ OutputBufferLoad(t))
                    => UNCHANGED <<back_info, input_idx, output_idx>>]_vars

\* A publish and an update have changed both private indices, and a
\* consumed() made after them has returned true and changed nothing.
C16_Witness ==
    \E t \in Threads :
        /\ pc[t] = "done"
        /\ call[t] = "consumed"
        /\ flag[t]
        /\ input_idx # 1
        /\ output_idx # 2
        /\ ~Dirty(back_info)

\* C17: the Reader's check-then-exchange is safe.  The dirty check and the
\* exchange of update() are two steps, and in every interleaving the word
\* the exchange removes from back_info has its dirty bit set and the word it
\* installs is the Reader's output index of before, dirty bit clear;
\* update() makes the exchange exactly when its check found the bit set and
\* returns true exactly then; and the dirty bit goes from clear to set in
\* the exchange of a publish() only.
C17_CheckThenExchange ==
    /\ [](\A t \in Threads :
             pc[t] \in {"u_load", "u_swap", "u_store"} => flag[t])
    /\ [][\A t \in Threads :
             /\ UpdateSwap(t) =>
                    /\ Dirty(back_info)
                    /\ ~Dirty(back_info')
                    /\ back_info' = output_idx
                    /\ IndexOf(back_info') # IndexOf(back_info)
             /\ (pc[t] = "u_check" /\ pc'[t] = AfterUpdate(t)) =>
                    (~Dirty(back_info) /\ ~flag'[t] /\ UNCHANGED shared)
             /\ (pc[t] = "u_check" /\ pc'[t] = "u_load") =>
                    (Dirty(back_info) /\ flag'[t])
             /\ (pc[t] = "u_store" /\ pc'[t] = AfterUpdate(t)) =>
                    (flag[t] /\ flag'[t])]_vars
    /\ [][(~Dirty(back_info) /\ Dirty(back_info')) =>
             \E t \in Threads : PublishSwap(t)]_vars

\* An update() has returned true while the publish() whose value it took is
\* still between its exchange and its store to input_idx.
C17_Witness ==
    \E t, u \in Threads :
        /\ pc[t] = "done"
        /\ call[t] = "update"
        /\ flag[t]
        /\ pc[u] = "p_store"
        /\ ~Dirty(back_info)
        /\ input_idx = output_idx

\* The slot the Reader released in its last update(), slot 0 (the initial
\* back slot) when there has been none.
ReleasedSlot ==
    IF hist.relSlot = Nil THEN 0 ELSE hist.relSlot

\* C18: slot recycling on publish.  The word a publish exchange replaces
\* names, when it is dirty, the slot the Writer's preceding publish()
\* published, and, when it is clean, the slot the Reader released in its
\* last update (slot 0 initially); publish() stores that slot into
\* input_idx, and it is never the slot the Reader holds as output.  As long
\* as no update exchange has happened, the Writer's slots are 0 and 1 in
\* turn and output_idx and the output slot's content stay what they were.
C18_SlotRecycling ==
    /\ [][\A t \in Threads :
             /\ PublishSwap(t) =>
                    /\ Dirty(back_info) =>
                          (hist.pubSlot # Nil /\ IndexOf(back_info) = hist.pubSlot)
                    /\ ~Dirty(back_info) => IndexOf(back_info) = ReleasedSlot
                    /\ IndexOf(back_info) # OutputSlot
             /\ PublishStore(t) =>
                    /\ input_idx' = IndexOf(former[t])
                    /\ input_idx' # input_idx
                    /\ input_idx' # OutputSlot
                    /\ Dirty(former[t]) => input_idx' = hist.pubSlot
                    /\ (hist.relSlot = Nil /\ hist.pubSlot # Nil) =>
                          input_idx' = hist.pubSlot]_vars
    /\ [](hist.relSlot = Nil =>
             /\ output_idx = 2
             /\ buffers[output_idx] = GenValue(0)
             /\ {input_idx, IndexOf(back_info)} \subseteq {0, 1}
             /\ PublishesComplete => input_idx # IndexOf(back_info))

\* Two writes without an update between them (the second took back the slot
\* of the first), an update, and a publish() that has replaced the clean
\* word and taken the slot that update released, the Reader's initial one.
C18_Witness ==
    \E t \in Threads :
        /\ pc[t] = "done"
        /\ call[t] = "publish"
        /\ ~flag[t]
        /\ hist.gen = 2
        /\ hist.relSlot = 2
        /\ input_idx = 2
        /\ output_idx = 0
        /\ buffers[output_idx] = GenValue(2)
        /\ back_info = PublishWord(1)

\* C19: handle acquisition always terminates.  Every get_writer() and
\* get_reader() ends with its first compare-and-swap: it returns a handle
\* when the flag was false and panics when the flag was true; the branch
\* that goes round the loop again is never taken, so no thread is ever
\* inside a second iteration.
C19_AcquisitionTerminates ==
    /\ [](\A t \in Threads :
             /\ pc[t] \notin {"gw", "gr"}
             /\ call[t] \notin {"get_writer", "get_reader"})
    /\ [][\A t \in Threads :
             /\ GetWriter(t) =>
                    /\ pc[t] = "idle"
                    /\ IF is_writer_exist
                       THEN pc'[t] = "panicked" /\ UNCHANGED <<flags, handles>>
                       ELSE /\ pc'[t] = "idle"
                            /\ is_writer_exist'
                            /\ nW'[t] = nW[t] + 1
             /\ GetReader(t) =>
                    /\ pc[t] = "idle"
                    /\ IF is_reader_exist
                       THEN pc'[t] = "panicked" /\ UNCHANGED <<flags, handles>>
                       ELSE /\ pc'[t] = "idle"
                            /\ is_reader_exist'
                            /\ nR'[t] = nR[t] + 1]_vars

\* One thread's acquisition has ended in a panic at its only compare-and-swap
\* and has left it without a handle; the other thread's two acquisitions have
\* each returned a handle at theirs.
C19_Witness ==
    \E t, u \in Threads :
        /\ t # u
        /\ pc[t] = "panicked"
        /\ nW[t] = 0
        /\ nR[t] = 0
        /\ pc[u] = "idle"
        /\ nW[u] = 1
        /\ nR[u] = 1
        /\ hist.gen = 0
        /\ hist.raws = 0

====
